---- MODULE Spec2Model ----
(***************************************************************************)
(* The round lifecycle scheduler and settlement engine of the games        *)
(* router.  The repository holds two copies of the router:                 *)
(*   "monitor"  src/unnamed/part_001       (background setInterval monitor) *)
(*   "poll"     src/server/routes/games.js (GET /current drives the round)  *)
(* One of them is mounted; `router` records which.  Every handler is a     *)
(* process whose steps are its awaited persistence operations: one step is *)
(* one database operation together with the synchronous code that follows  *)
(* it up to the next await.  Documents are Mongoose documents: a handler    *)
(* works on the local copy it loaded, and save() writes the paths whose     *)
(* value it changed.                                                        *)
(***************************************************************************)
EXTENDS Integers, Sequences, FiniteSets, TLC

\* ---------------------------------------------------------------- bounds
MaxGames == 2          \* rounds ever persisted
MaxBets == 2           \* wagers ever persisted
MaxTime == 2           \* last value of the clock
MaxInFlight == 2       \* handlers executing at the same time
MaxTimers == 1         \* untracked delayed creation timers pending at once
MaxExternal == 5       \* rounds in the collection up to which another writer inserts
InitBalance == 20      \* balance of every wallet at the start

\* ------------------------------------------------------ program constants
StartDelay == 1        \* startTime = Date.now() + 5000; the clock unit is 5 s
GameDuration == 1      \* settings.gameDuration, in clock units
OutcomeRange == 10     \* Math.floor(Math.random() * 10)
MaxAttemptsMonitor == 5
MaxAttemptsPoll == 3
NumberMultiplier == 9
ColorMultiplier == 2
SizeMultiplier == 2

NULL == 0 - 1          \* null of a numeric path
NONE == "none"         \* null of a string path

Users == {"u1", "u2"}
Routers == {"monitor", "poll"}

\* Handlers; at most one invocation of each is in flight.
Procs == {"mon", "cur", "end", "stop", "start", "fix", "create", "timer", "bet1", "bet2"}
BetProcs == {"bet1", "bet2"}

\* The request bodies POST /bet is driven with: <<betType, betValue, amount>>.
BetRequests ==
    { <<"number", "3", 10>>, <<"color", "green", 10>>, <<"color", "red", 10>>,
      <<"size", "big", 10>> }

\* The values PUT /:id/fix is driven with (the route does not validate them).
FixRequests == {7, 12}
SomeFixes == {7}

VARIABLES
    router,                   \* which copy of the router is mounted
    limit,                    \* how many handlers may execute at the same time
    now,                      \* the clock (Date.now()), in units of 5 s
    games,                    \* Game collection, in creation order; _id = index
    bets,                     \* Bet collection, in creation order; _id = index
    wallets,                  \* Wallet collection: userId -> balance
    txns,                     \* Transaction collection: <<userId, type, amount>> -> count
    gameCreationInProgress,
    continuousGamesEnabled,
    gameCreationTimeout,      \* poll: a debounced creation timer is pending
    gameCheckInterval,        \* monitor: the handle is set
    liveIntervals,            \* monitor: number of intervals that still fire
    pendingTimers,            \* monitor: untracked setTimeout callbacks pending
    proc                      \* the handlers' positions and local variables

vars == << router, limit, now, games, bets, wallets, txns, gameCreationInProgress,
           continuousGamesEnabled, gameCreationTimeout, gameCheckInterval,
           liveIntervals, pendingTimers, proc >>

\* ---------------------------------------------------------- pure helpers

\* Mutant: parity alone, without the case of 0.
ResultColorParity(n) == IF n % 2 = 0 THEN "red" ELSE "green"

\* resultNumber === 0 ? 'green' : (resultNumber % 2 === 0 ? 'red' : 'green')
ResultColor(n) == IF n = 0 THEN "green" ELSE IF n % 2 = 0 THEN "red" ELSE "green"

\* resultNumber >= 5 ? 'big' : 'small'
ResultSize(n) == IF n >= 5 THEN "big" ELSE "small"

\* parseInt on the decimal strings the clients send; NaN (never equal) is NULL - 1.
ParseInt(s) ==
    CASE s = "0" -> 0 [] s = "1" -> 1 [] s = "2" -> 2 [] s = "3" -> 3 [] s = "4" -> 4
      [] s = "5" -> 5 [] s = "6" -> 6 [] s = "7" -> 7 [] s = "8" -> 8 [] s = "9" -> 9
      [] OTHER -> NULL - 1

\* The switch on bet.betType: isWin.
IsWin(bet, resultNumber, resultColor, resultSize) ==
    CASE bet.betType = "number" -> ParseInt(bet.betValue) = resultNumber
      [] bet.betType = "color" -> bet.betValue = resultColor
      [] bet.betType = "size" -> bet.betValue = resultSize
      [] OTHER -> FALSE

\* The switch on bet.betType: multiplier.
Multiplier(betType) ==
    CASE betType = "number" -> NumberMultiplier
      [] betType = "color" -> ColorMultiplier
      [] betType = "size" -> SizeMultiplier
      [] OTHER -> 1

\* bet.payout = isWin ? bet.amount * multiplier : 0
Payout(bet, isWin) == IF isWin THEN bet.amount * Multiplier(bet.betType) ELSE 0

\* game.fixedResult !== null ? game.fixedResult : Math.floor(Math.random() * 10)
\* D: the values of the random draw that are explored.
ResultChoices(doc, D) == IF doc.fixedResult # NULL THEN {doc.fixedResult} ELSE D

\* Every value Math.floor(Math.random() * 10) can take, and the ones most
\* specifications explore: 3 (odd, small), 4 (even, small).
AllDraws == 0 .. (OutcomeRange - 1)
SomeDraws == {3, 4}

\* ------------------------------------------------------------ collections

GameIds == 1 .. Len(games)
BetIds == 1 .. Len(bets)

\* { status: { $in: ['waiting', 'betting'] } }
IsActive(g) == g.status \in {"waiting", "betting"}
ActiveGames == { i \in GameIds : IsActive(games[i]) }

\* Game.findOne({status: {$in: [...]}}).sort({createdAt: -1}): 0 when none.
FindActive == IF ActiveGames = {} THEN 0 ELSE CHOOSE i \in ActiveGames : \A j \in ActiveGames : j <= i

\* Game.find({status: {$in: [...]}}): the active rounds, in natural order.
RECURSIVE SeqOfSet(_)
SeqOfSet(S) ==
    IF S = {} THEN << >>
    ELSE LET m == CHOOSE i \in S : \A j \in S : i <= j IN << m >> \o SeqOfSet(S \ {m})

\* Game.findOne().sort({gameNumber: -1}); nextGameNumber = lastGame ? lastGame.gameNumber + 1 : 1
LastGameNumber ==
    IF games = << >> THEN 0
    ELSE CHOOSE n \in { games[i].gameNumber : i \in GameIds } :
             \A i \in GameIds : games[i].gameNumber <= n
\* Mutant: the number below the last one instead of the one above it.
NextGameNumberBelow == IF games = << >> THEN 1 ELSE LastGameNumber - 1
NextGameNumber == IF games = << >> THEN 1 ELSE LastGameNumber + 1

\* The unique index on gameNumber: the insert is rejected with code 11000.
DuplicateKey(n) == \E i \in GameIds : games[i].gameNumber = n

\* new Game({gameNumber, status: 'waiting', startTime}) with the schema's defaults.
NewGame(n, t) ==
    [ gameNumber |-> n, status |-> "waiting", startTime |-> t, endTime |-> NULL,
      isFixed |-> FALSE, fixedResult |-> NULL,
      resultNumber |-> NULL, resultColor |-> NONE, resultSize |-> NONE ]

GameFields == { "gameNumber", "status", "startTime", "endTime", "isFixed", "fixedResult",
                "resultNumber", "resultColor", "resultSize" }

\* doc.save(): $set of the paths whose value the handler changed since it loaded
\* (or last saved) the document, on the stored record.
SaveDoc(stored, loaded, doc) ==
    [ f \in GameFields |-> IF doc[f] # loaded[f] THEN doc[f] ELSE stored[f] ]

\* Mutant: Bet.find({gameId}), without the filter on result.
PendingBetsAnyResult(gid) == SeqOfSet({ b \in BetIds : bets[b].gameId = gid })

\* Bet.find({gameId, result: 'pending'}): the ids, in natural order.
PendingBets(gid) == SeqOfSet({ b \in BetIds : bets[b].gameId = gid /\ bets[b].result = "pending" })

\* Bet.findOne({userId, gameId})
ExistingBet(u, gid) == \E b \in BetIds : bets[b].userId = u /\ bets[b].gameId = gid

\* new Transaction({...}).save()
AddTxn(t, u, type, amount) ==
    LET k == << u, type, amount >> IN
    IF k \in DOMAIN t THEN [ t EXCEPT ![k] = @ + 1 ] ELSE t @@ (k :> 1)

\* -------------------------------------------------------------- processes

NoDoc == NewGame(0, NULL)

\* A handler that is not running, its local variables cleared.
Idle ==
    [ pc |-> "idle",
      gid |-> 0,            \* _id of the round document held
      doc |-> NoDoc,        \* the round document as loaded (or last saved)
      t |-> NULL,           \* a timestamp taken with new Date() for the next save
      due |-> FALSE,        \* now >= bettingEndTime, with `now` as taken after the find
      again |-> FALSE,      \* history: endGameAndProcessBets was called on a round it
                            \* was handed as completed, with no bet of it pending
      open |-> FALSE,       \* history: endGameAndProcessBets was called on a round it
                            \* was handed as betting
      todo |-> << >>,       \* bets still to process in the for loop
      wal |-> NULL,         \* wallet.balance as loaded
      list |-> << >>,       \* activeGames still to end: << _id, document >>
      n |-> 0,              \* nextGameNumber
      attempts |-> 0,
      val |-> NULL,         \* req.body.fixedResult
      user |-> NONE,        \* req.user._id
      req |-> << >> ]       \* req.body of POST /bet

Running == { p \in Procs : proc[p].pc # "idle" }

\* A new request or callback may start.
CanStart(p) == proc[p].pc = "idle" /\ Cardinality(Running) < limit

MaxAttempts == IF router = "monitor" THEN MaxAttemptsMonitor ELSE MaxAttemptsPoll

Set(p, l) == proc' = [ proc EXCEPT ![p] = l ]

\* Everything outside the collections and outside proc.
globals == << router, limit, gameCreationInProgress, continuousGamesEnabled, gameCreationTimeout,
              gameCheckInterval, liveIntervals, pendingTimers >>
money == << bets, wallets, txns >>

\* ------------------------------------------------- createNewGameSafely

\* Mutant: no check of gameCreationInProgress before the claim.
createNewGameSafelyUnguarded(p) ==
    /\ Len(games) < MaxGames
    /\ gameCreationInProgress' = TRUE
    /\ Set(p, [ Idle EXCEPT !.pc = "c_exist" ])

\* Mutant: the early return releases the claim of the call in flight.
createNewGameSafelyReleasing(p) ==
    IF gameCreationInProgress
    THEN /\ Set(p, Idle)
         /\ gameCreationInProgress' = FALSE
    ELSE /\ Len(games) < MaxGames
         /\ gameCreationInProgress' = TRUE
         /\ Set(p, [ Idle EXCEPT !.pc = "c_exist" ])

\* The synchronous head of createNewGameSafely, run by caller p in the step
\* that calls it: return null when a creation is in flight, else claim it.
createNewGameSafely(p) ==
    IF gameCreationInProgress
    THEN /\ Set(p, Idle)
         /\ UNCHANGED gameCreationInProgress
    ELSE /\ Len(games) < MaxGames
         /\ gameCreationInProgress' = TRUE
         /\ Set(p, [ Idle EXCEPT !.pc = "c_exist" ])

\* What the caller does with the round createNewGameSafely returned (0: null),
\* in the step in which it returns.  The poll router's start-continuous goes
\* on: game.status = 'betting'; game.startTime = new Date(); game.save().
\* POST /create answers 200 'Game created successfully' with the round (400
\* for null).  The other callers ignore the value.
AfterCreate(p, gid, doc) ==
    IF p = "start" /\ router = "poll" /\ gid # 0
    THEN [ Idle EXCEPT !.pc = "start_save", !.gid = gid, !.doc = doc, !.t = now ]
    ELSE IF p = "create" /\ gid # 0
         THEN [ Idle EXCEPT !.pc = "create_ok", !.gid = gid ]
         ELSE Idle

\* Mutant: existingGame is returned without the claim being released.
CreateExistingKeepsClaim(p) ==
    /\ proc[p].pc = "c_exist"
    /\ IF FindActive # 0
       THEN Set(p, AfterCreate(p, FindActive, games[FindActive]))
       ELSE Set(p, [ proc[p] EXCEPT !.pc = "c_last" ])
    /\ UNCHANGED << now, games, money, globals >>

\* const existingGame = await Game.findOne({status: {$in: [...]}}); the finally
\* block releases the claim when it returns existingGame.
CreateExisting(p) ==
    /\ proc[p].pc = "c_exist"
    /\ IF FindActive # 0
       THEN /\ gameCreationInProgress' = FALSE
            /\ Set(p, AfterCreate(p, FindActive, games[FindActive]))
       ELSE /\ Set(p, [ proc[p] EXCEPT !.pc = "c_last" ])
            /\ UNCHANGED gameCreationInProgress
    /\ UNCHANGED << router, limit, now, games, money, continuousGamesEnabled, gameCreationTimeout,
                    gameCheckInterval, liveIntervals, pendingTimers >>

\* const lastGame = await Game.findOne().sort({gameNumber: -1}); the first
\* gameData is built, with its startTime, before game.save() is awaited.
CreateLast(p) ==
    /\ proc[p].pc = "c_last"
    /\ Set(p, [ proc[p] EXCEPT !.pc = "c_save", !.n = NextGameNumber, !.attempts = 0,
                               !.t = now + StartDelay ])
    /\ UNCHANGED << now, games, money, globals >>

\* Mutant: the loop has no bound on attempts.
CreateSaveUnbounded(p) ==
    /\ proc[p].pc = "c_save"
    /\ LET l == proc[p]
           num == l.n + l.attempts
       IN IF ~DuplicateKey(num)
          THEN /\ games' = Append(games, NewGame(num, l.t))
               /\ gameCreationInProgress' = FALSE
               /\ Set(p, AfterCreate(p, Len(games) + 1, NewGame(num, l.t)))
          ELSE /\ UNCHANGED << games, gameCreationInProgress >>
               /\ Set(p, [ l EXCEPT !.attempts = @ + 1, !.t = now + StartDelay ])
    /\ UNCHANGED << router, limit, now, money, continuousGamesEnabled, gameCreationTimeout,
                    gameCheckInterval, liveIntervals, pendingTimers >>

\* await game.save() inside the retry loop: the insert, or a duplicate key
\* error (code 11000) and the next attempt.
CreateSave(p) ==
    /\ proc[p].pc = "c_save"
    /\ LET l == proc[p]
           num == l.n + l.attempts
       IN IF ~DuplicateKey(num)
          THEN /\ games' = Append(games, NewGame(num, l.t))
               /\ gameCreationInProgress' = FALSE
               /\ Set(p, AfterCreate(p, Len(games) + 1, NewGame(num, l.t)))
          ELSE /\ UNCHANGED games
               /\ IF l.attempts + 1 >= MaxAttempts
                  THEN /\ gameCreationInProgress' = FALSE
                       /\ Set(p, Idle)
                  ELSE /\ UNCHANGED gameCreationInProgress
                       /\ Set(p, [ l EXCEPT !.attempts = @ + 1, !.t = now + StartDelay ])
    /\ UNCHANGED << router, limit, now, money, continuousGamesEnabled, gameCreationTimeout,
                    gameCheckInterval, liveIntervals, pendingTimers >>

\* An awaited operation of createNewGameSafely rejects with an error that is
\* not a duplicate key: caught by the outer catch, return null; the finally
\* block releases the claim.
CreateFails(p) ==
    /\ proc[p].pc \in {"c_exist", "c_last", "c_save"}
    /\ gameCreationInProgress' = FALSE
    /\ Set(p, AfterCreate(p, 0, NoDoc))
    /\ UNCHANGED << router, limit, now, games, money, continuousGamesEnabled, gameCreationTimeout,
                    gameCheckInterval, liveIntervals, pendingTimers >>

\* Another server process on the same database persists the round its own
\* createNewGameSafely computed: the concurrent writer the duplicate key
\* branch is written for.
ExternalInsert ==
    /\ Len(games) < MaxExternal
    /\ games' = Append(games, NewGame(NextGameNumber, now + StartDelay))
    /\ UNCHANGED << now, money, globals, proc >>

\* POST /create: const game = await createNewGameSafely().
Create ==
    /\ CanStart("create")
    /\ createNewGameSafely("create")
    /\ UNCHANGED << router, limit, now, games, money, continuousGamesEnabled, gameCreationTimeout,
                    gameCheckInterval, liveIntervals, pendingTimers >>

\* res.json({ message: 'Game created successfully', game }) has been sent.
CreateReply ==
    /\ proc["create"].pc = "create_ok"
    /\ Set("create", Idle)
    /\ UNCHANGED << now, games, money, globals >>

\* ------------------------------------------------ endGameAndProcessBets

\* endGameAndProcessBets(game) is called with the document `doc` of round gid:
\* game.endTime = new Date() is taken now, game.save() is awaited.
CallEnd(l, gid, doc) ==
    [ l EXCEPT !.pc = "end_save", !.gid = gid, !.doc = doc, !.t = now,
               !.open = doc.status = "betting",
               !.again = /\ doc.status = "completed"
                         /\ \A b \in BetIds : bets[b].gameId = gid => bets[b].result # "pending" ]

\* The document after the assignments of lines 157-161, for result number rn.
EndedDoc(doc, t, rn) ==
    [ doc EXCEPT !.status = "completed", !.endTime = t, !.resultNumber = rn,
                 !.resultColor = ResultColor(rn), !.resultSize = ResultSize(rn) ]

\* await game.save(): the round is persisted as completed, with its result.
EndSave(p, D) ==
    /\ proc[p].pc = "end_save"
    /\ \E rn \in ResultChoices(proc[p].doc, D) :
         LET l == proc[p]
             ended == EndedDoc(l.doc, l.t, rn)
         IN /\ games' = [ games EXCEPT ![l.gid] = SaveDoc(@, l.doc, ended) ]
            /\ Set(p, [ l EXCEPT !.pc = "end_find", !.doc = ended ])
    /\ UNCHANGED << now, money, globals >>

\* What the caller does when endGameAndProcessBets returns, in the same step.
\*   monitor tick:  if (continuousGamesEnabled) setTimeout(createNewGameSafely, 3000)
\*   GET /current:  if (continuousGamesEnabled) scheduleNextGameCreation()
\*   stop-continuous: the next round of activeGames
\*   PUT /:id/end:  the response
EndReturn(p, l) ==
    /\ pendingTimers' =
         IF p = "mon" /\ continuousGamesEnabled THEN pendingTimers + 1 ELSE pendingTimers
    /\ gameCreationTimeout' =
         IF p = "cur" /\ continuousGamesEnabled THEN TRUE ELSE gameCreationTimeout
    /\ IF p = "stop" /\ l.list # << >>
       THEN Set(p, CallEnd([ l EXCEPT !.list = Tail(@), !.todo = << >>, !.wal = NULL ],
                           Head(l.list)[1], Head(l.list)[2]))
       ELSE Set(p, Idle)
    /\ UNCHANGED << router, limit, gameCreationInProgress, continuousGamesEnabled,
                    gameCheckInterval, liveIntervals >>

\* The for loop goes to its next bet, or the function returns.
NextBet(p, l) ==
    IF Tail(l.todo) = << >>
    THEN EndReturn(p, l)
    ELSE /\ Set(p, [ l EXCEPT !.pc = "bet_save", !.todo = Tail(@), !.wal = NULL ])
         /\ UNCHANGED << globals >>

\* const bets = await Bet.find({gameId: game._id, result: 'pending'})
EndFind(p) ==
    /\ proc[p].pc = "end_find"
    /\ LET l == [ proc[p] EXCEPT !.todo = PendingBets(proc[p].gid) ]
       IN IF l.todo = << >>
          THEN EndReturn(p, l)
          ELSE /\ Set(p, [ l EXCEPT !.pc = "bet_save" ])
               /\ UNCHANGED << globals >>
    /\ UNCHANGED << now, games, money >>

\* isWin of the bet the loop is at, against the result this call generated.
BetWins(l) ==
    IsWin(bets[Head(l.todo)], l.doc.resultNumber, l.doc.resultColor, l.doc.resultSize)

\* bet.result = ...; bet.payout = ...; await bet.save().  The bet was loaded
\* pending with payout 0: result is always a changed path, payout only on a win.
BetSave(p) ==
    /\ proc[p].pc = "bet_save"
    /\ LET l == proc[p]
           b == Head(l.todo)
           isWin == BetWins(l)
       IN /\ bets' = [ bets EXCEPT ![b].result = IF isWin THEN "win" ELSE "loss",
                                   ![b].payout = IF Payout(bets[b], isWin) # 0
                                                 THEN Payout(bets[b], isWin) ELSE @,
                                   ![b].settled = @ + 1 ]
          /\ IF isWin
             THEN /\ Set(p, [ l EXCEPT !.pc = "wal_find" ])
                  /\ UNCHANGED << globals >>
             ELSE NextBet(p, l)
    /\ UNCHANGED << now, games, wallets, txns >>

\* const wallet = await Wallet.findOne({userId: bet.userId})
WalletFind(p) ==
    /\ proc[p].pc = "wal_find"
    /\ Set(p, [ proc[p] EXCEPT !.pc = "wal_save", !.wal = wallets[bets[Head(proc[p].todo)].userId] ])
    /\ UNCHANGED << now, games, money, globals >>

\* wallet.balance += bet.payout; await wallet.save()
WalletSave(p) ==
    /\ proc[p].pc = "wal_save"
    /\ LET l == proc[p]
           b == Head(l.todo)
       IN /\ wallets' = [ wallets EXCEPT ![bets[b].userId] = l.wal + Payout(bets[b], TRUE) ]
          /\ bets' = [ bets EXCEPT ![b].credited = @ + 1 ]
          /\ Set(p, [ l EXCEPT !.pc = "txn_save" ])
    /\ UNCHANGED << now, games, txns, globals >>

\* await wallet.save() rejects (a persistence error): the error is rethrown by
\* the catch block of endGameAndProcessBets and ends the caller's handler (the
\* monitor logs it, a route answers 500); nothing after it is executed.
WalletSaveFails(p) ==
    /\ proc[p].pc = "wal_save"
    /\ Set(p, Idle)
    /\ UNCHANGED << now, games, money, globals >>

\* await new Transaction({type: 'win', amount: bet.payout, ...}).save()
TxnSave(p) ==
    /\ proc[p].pc = "txn_save"
    /\ LET l == proc[p]
           b == Head(l.todo)
       IN /\ txns' = AddTxn(txns, bets[b].userId, "win", Payout(bets[b], TRUE))
          /\ NextBet(p, l)
    /\ UNCHANGED << now, games, bets, wallets >>

\* ------------------------------------------------------ round transitions

\* now >= bettingEndTime, bettingEndTime = startTime + gameDuration
BettingEnded(doc, t) == t >= doc.startTime + GameDuration

\* The transition checks shared by the monitor tick and the poll router's
\* GET /current, on the round just found (const now = new Date()):
\* waiting and now >= startTime: status = 'betting', save; then the end check.
Transitions(gid) ==
    LET doc == games[gid]
        l == [ Idle EXCEPT !.gid = gid, !.doc = doc, !.due = BettingEnded(doc, now) ]
    IN IF doc.status = "waiting" /\ now >= doc.startTime
       THEN [ l EXCEPT !.pc = "open_save" ]
       ELSE IF doc.status = "betting" /\ l.due
            THEN CallEnd(l, gid, doc)
            ELSE Idle

\* Mutant: the handler returns after opening the round (else if).
OpenSaveReturns(p) ==
    /\ proc[p].pc = "open_save"
    /\ LET l == proc[p]
           opened == [ l.doc EXCEPT !.status = "betting" ]
       IN /\ games' = [ games EXCEPT ![l.gid] = SaveDoc(@, l.doc, opened) ]
          /\ Set(p, Idle)
    /\ UNCHANGED << now, money, globals >>

\* await activeGame.save() with status 'betting'; then, the status being
\* 'betting', the end check with the `now` taken before.
OpenSave(p) ==
    /\ proc[p].pc = "open_save"
    /\ LET l == proc[p]
           opened == [ l.doc EXCEPT !.status = "betting" ]
       IN /\ games' = [ games EXCEPT ![l.gid] = SaveDoc(@, l.doc, opened) ]
          /\ Set(p, IF l.due THEN CallEnd(l, l.gid, opened) ELSE Idle)
    /\ UNCHANGED << now, money, globals >>

\* The interval fires: if (!continuousGamesEnabled) return; Game.findOne is awaited.
MonitorTick ==
    /\ router = "monitor"
    /\ liveIntervals > 0
    /\ continuousGamesEnabled
    /\ pendingTimers < MaxTimers
    /\ CanStart("mon")
    /\ Set("mon", [ Idle EXCEPT !.pc = "mon_find" ])
    /\ UNCHANGED << now, games, money, globals >>

\* Mutant: the callback returns when it finds no active round.
MonitorFindReturns ==
    /\ proc["mon"].pc = "mon_find"
    /\ IF FindActive = 0
       THEN Set("mon", Idle) /\ UNCHANGED gameCreationInProgress
       ELSE Set("mon", Transitions(FindActive)) /\ UNCHANGED gameCreationInProgress
    /\ UNCHANGED << router, limit, now, games, money, continuousGamesEnabled, gameCreationTimeout,
                    gameCheckInterval, liveIntervals, pendingTimers >>

\* const activeGame = await Game.findOne(...): no round, create one if continuous
\* games are (still) enabled; else the transition checks.
MonitorFind ==
    /\ proc["mon"].pc = "mon_find"
    /\ IF FindActive = 0
       THEN IF continuousGamesEnabled
            THEN createNewGameSafely("mon")
            ELSE Set("mon", Idle) /\ UNCHANGED gameCreationInProgress
       ELSE Set("mon", Transitions(FindActive)) /\ UNCHANGED gameCreationInProgress
    /\ UNCHANGED << router, limit, now, games, money, continuousGamesEnabled, gameCreationTimeout,
                    gameCheckInterval, liveIntervals, pendingTimers >>

\* GET /current of the monitor router: a read, nothing else.
CurrentRead ==
    /\ router = "monitor"
    /\ CanStart("cur")
    /\ UNCHANGED vars

\* GET /current of the poll router: the find, then creation or the transitions.
CurrentFind ==
    /\ router = "poll"
    /\ CanStart("cur")
    /\ IF FindActive = 0
       THEN IF continuousGamesEnabled
            THEN createNewGameSafely("cur")
            ELSE Set("cur", Idle) /\ UNCHANGED gameCreationInProgress
       ELSE Set("cur", Transitions(FindActive)) /\ UNCHANGED gameCreationInProgress
    /\ UNCHANGED << router, limit, now, games, money, continuousGamesEnabled, gameCreationTimeout,
                    gameCheckInterval, liveIntervals, pendingTimers >>

\* The delayed creation fires.  monitor: setTimeout(() => createNewGameSafely(), 3000),
\* its handle not kept.  poll: the debounced gameCreationTimeout, which creates
\* only if continuous games are enabled.
TimerFire ==
    /\ CanStart("timer")
    /\ IF router = "monitor"
       THEN /\ pendingTimers > 0
            /\ pendingTimers' = pendingTimers - 1
            /\ createNewGameSafely("timer")
            /\ UNCHANGED gameCreationTimeout
       ELSE /\ gameCreationTimeout
            /\ gameCreationTimeout' = FALSE
            /\ UNCHANGED pendingTimers
            /\ IF continuousGamesEnabled
               THEN createNewGameSafely("timer")
               ELSE Set("timer", Idle) /\ UNCHANGED gameCreationInProgress
    /\ UNCHANGED << router, limit, now, games, money, continuousGamesEnabled,
                    gameCheckInterval, liveIntervals >>

\* ----------------------------------------------------------- admin routes

\* PUT /:id/end: Game.findById; the monitor router answers 400 for a completed
\* round, the poll router has no such check; then endGameAndProcessBets(game).
EndGame(gid) ==
    /\ CanStart("end")
    /\ IF router = "monitor" /\ games[gid].status = "completed"
       THEN Set("end", Idle)
       ELSE Set("end", CallEnd(Idle, gid, games[gid]))
    /\ UNCHANGED << now, games, money, globals >>

\* PUT /:id/fix (only the monitor router has the route): Game.findById; 400 for
\* a completed round; else isFixed and fixedResult are set and game.save() is
\* awaited.
FixFind(gid, v) ==
    /\ router = "monitor"
    /\ CanStart("fix")
    /\ IF games[gid].status = "completed"
       THEN Set("fix", Idle)
       ELSE Set("fix", [ Idle EXCEPT !.pc = "fix_save", !.gid = gid, !.doc = games[gid], !.val = v ])
    /\ UNCHANGED << now, games, money, globals >>

\* The persistence layer's answer to a save of fixedResult v: sequence-number
\* uniqueness is its only hard constraint, so no value is rejected.
RejectsFixedResult(v) == FALSE

\* await game.save(); a rejected save is thrown to the catch block (500).
FixSave ==
    /\ proc["fix"].pc = "fix_save"
    /\ LET l == proc["fix"]
           fixed == [ l.doc EXCEPT !.isFixed = TRUE, !.fixedResult = l.val ]
       IN IF RejectsFixedResult(l.val)
          THEN UNCHANGED games
          ELSE games' = [ games EXCEPT ![l.gid] = SaveDoc(@, l.doc, fixed) ]
    /\ Set("fix", Idle)
    /\ UNCHANGED << now, money, globals >>

\* Mutant: a new interval without clearInterval of the handle held.
startGameMonitoringKeepsOld ==
    /\ liveIntervals' = liveIntervals + 1
    /\ gameCheckInterval' = TRUE

\* startGameMonitoring(): clearInterval of the handle held, then a new interval.
startGameMonitoring ==
    /\ liveIntervals' = (IF gameCheckInterval THEN liveIntervals - 1 ELSE liveIntervals) + 1
    /\ gameCheckInterval' = TRUE

\* POST /start-continuous: continuousGamesEnabled = true; Game.updateMany is awaited.
StartContinuous ==
    /\ CanStart("start")
    /\ continuousGamesEnabled' = TRUE
    /\ Set("start", [ Idle EXCEPT !.pc = "start_update", !.t = now ])
    /\ UNCHANGED << router, limit, now, games, money, gameCreationInProgress, gameCreationTimeout,
                    gameCheckInterval, liveIntervals, pendingTimers >>

\* await Game.updateMany({status: {$in: [...]}}, {status: 'completed', endTime});
\* then (monitor) startGameMonitoring(), then createNewGameSafely().
StartUpdate ==
    /\ proc["start"].pc = "start_update"
    /\ games' = [ i \in GameIds |->
                    IF IsActive(games[i])
                    THEN [ games[i] EXCEPT !.status = "completed", !.endTime = proc["start"].t ]
                    ELSE games[i] ]
    /\ IF router = "monitor"
       THEN startGameMonitoring
       ELSE UNCHANGED << gameCheckInterval, liveIntervals >>
    /\ createNewGameSafely("start")
    /\ UNCHANGED << router, limit, now, money, continuousGamesEnabled, gameCreationTimeout,
                    pendingTimers >>

\* The poll router's start-continuous, on the round createNewGameSafely returned:
\* game.status = 'betting'; game.startTime = new Date(); await game.save().
StartSave ==
    /\ proc["start"].pc = "start_save"
    /\ LET l == proc["start"]
           started == [ l.doc EXCEPT !.status = "betting", !.startTime = l.t ]
       IN games' = [ games EXCEPT ![l.gid] = SaveDoc(@, l.doc, started) ]
    /\ Set("start", Idle)
    /\ UNCHANGED << now, money, globals >>

\* POST /stop-continuous: the flag, clearInterval (monitor), clearTimeout; then
\* Game.find is awaited.
StopContinuous ==
    /\ CanStart("stop")
    /\ continuousGamesEnabled' = FALSE
    /\ IF router = "monitor" /\ gameCheckInterval
       THEN gameCheckInterval' = FALSE /\ liveIntervals' = liveIntervals - 1
       ELSE UNCHANGED << gameCheckInterval, liveIntervals >>
    /\ gameCreationTimeout' = FALSE
    /\ Set("stop", [ Idle EXCEPT !.pc = "stop_find" ])
    /\ UNCHANGED << router, limit, now, games, money, gameCreationInProgress, pendingTimers >>

\* const activeGames = await Game.find(...); for (const game of activeGames)
\* await endGameAndProcessBets(game).
StopFind ==
    /\ proc["stop"].pc = "stop_find"
    /\ LET found == SeqOfSet(ActiveGames)
           docs == [ k \in 1 .. Len(found) |-> << found[k], games[found[k]] >> ]
       IN Set("stop", IF docs = << >> THEN Idle
                      ELSE CallEnd([ Idle EXCEPT !.list = Tail(docs) ], docs[1][1], docs[1][2]))
    /\ UNCHANGED << now, games, money, globals >>

\* ---------------------------------------------------------------- POST /bet

\* new Bet({userId, gameId, betType, betValue, amount}) with the schema's defaults;
\* settled and credited are history: how often the bet was written as settled,
\* and how often a wallet was written with its payout added.
NewBet(u, gid, r) ==
    [ userId |-> u, gameId |-> gid, betType |-> r[1], betValue |-> r[2], amount |-> r[3],
      result |-> "pending", payout |-> 0, settled |-> 0, credited |-> 0 ]

\* const game = await Game.findById(gameId): 400 unless its status is 'betting'.
BetGame(p, u, gid, r) ==
    /\ CanStart(p)
    /\ Len(bets) + Cardinality(Running \cap BetProcs) < MaxBets
    /\ IF games[gid].status # "betting"
       THEN Set(p, Idle)
       ELSE Set(p, [ Idle EXCEPT !.pc = "b_exist", !.gid = gid, !.user = u, !.req = r ])
    /\ UNCHANGED << now, games, money, globals >>

\* const existingBet = await Bet.findOne({userId, gameId}): 400 when found.
BetExisting(p) ==
    /\ proc[p].pc = "b_exist"
    /\ IF ExistingBet(proc[p].user, proc[p].gid)
       THEN Set(p, Idle)
       ELSE Set(p, [ proc[p] EXCEPT !.pc = "b_wallet" ])
    /\ UNCHANGED << now, games, money, globals >>

\* Mutant: the stake is taken from the wallet before the balance is checked.
BetWalletChargeFirst(p) ==
    /\ proc[p].pc = "b_wallet"
    /\ wallets' = [ wallets EXCEPT ![proc[p].user] = @ - proc[p].req[3] ]
    /\ IF wallets[proc[p].user] < proc[p].req[3]
       THEN Set(p, Idle)
       ELSE Set(p, [ proc[p] EXCEPT !.pc = "b_save", !.wal = wallets[proc[p].user] ])
    /\ UNCHANGED << now, games, bets, txns, globals >>

\* const wallet = await Wallet.findOne({userId}): 400 when balance < amount;
\* else the bet is built and bet.save() awaited.
BetWallet(p) ==
    /\ proc[p].pc = "b_wallet"
    /\ IF wallets[proc[p].user] < proc[p].req[3]
       THEN Set(p, Idle)
       ELSE Set(p, [ proc[p] EXCEPT !.pc = "b_save", !.wal = wallets[proc[p].user] ])
    /\ UNCHANGED << now, games, money, globals >>

\* The persistence layer's answer to the insert of a second wager of user u on
\* round gid: sequence-number uniqueness is its only hard constraint, so the
\* insert is never rejected.
DuplicateBetKey(u, gid) == FALSE

\* await bet.save(): the insert; a rejected insert is thrown to the catch block
\* (500), nothing else written.
BetInsert(p) ==
    /\ proc[p].pc = "b_save"
    /\ IF DuplicateBetKey(proc[p].user, proc[p].gid)
       THEN /\ UNCHANGED bets
            /\ Set(p, Idle)
       ELSE /\ bets' = Append(bets, NewBet(proc[p].user, proc[p].gid, proc[p].req))
            /\ Set(p, [ proc[p] EXCEPT !.pc = "b_debit" ])
    /\ UNCHANGED << now, games, wallets, txns, globals >>

\* wallet.balance -= amount; await wallet.save()
BetDebit(p) ==
    /\ proc[p].pc = "b_debit"
    /\ wallets' = [ wallets EXCEPT ![proc[p].user] = proc[p].wal - proc[p].req[3] ]
    /\ Set(p, [ proc[p] EXCEPT !.pc = "b_txn" ])
    /\ UNCHANGED << now, games, bets, txns, globals >>

\* await new Transaction({type: 'bet', amount: -amount, ...}).save(); the response.
BetTxn(p) ==
    /\ proc[p].pc = "b_txn"
    /\ txns' = AddTxn(txns, proc[p].user, "bet", 0 - proc[p].req[3])
    /\ Set(p, Idle)
    /\ UNCHANGED << now, games, bets, wallets, globals >>

\* -------------------------------------------------------------- the system

\* Time passes.
Tick ==
    /\ now < MaxTime
    /\ now' = now + 1
    /\ UNCHANGED << games, money, globals, proc >>

\* The module has been loaded: the monitor router has called startGameMonitoring().
Loaded ==
    /\ now = 0
    /\ games = << >>
    /\ bets = << >>
    /\ wallets = [ u \in Users |-> InitBalance ]
    /\ txns = << >>
    /\ gameCreationInProgress = FALSE
    /\ continuousGamesEnabled = FALSE
    /\ gameCreationTimeout = FALSE
    /\ gameCheckInterval = (router = "monitor")
    /\ liveIntervals = IF router = "monitor" THEN 1 ELSE 0
    /\ pendingTimers = 0
    /\ proc = [ p \in Procs |-> Idle ]

Init == router \in Routers /\ limit = MaxInFlight /\ Loaded

\* The steps inside createNewGameSafely, by any caller.
CreateStep == \E p \in Procs : CreateExisting(p) \/ CreateLast(p) \/ CreateSave(p)

\* The steps inside endGameAndProcessBets that touch the round, by any caller.
CloseStep(D) == \E p \in Procs : EndSave(p, D) \/ EndFind(p)

\* The steps of its for loop over the bets.
SettleStep == \E p \in Procs : BetSave(p) \/ WalletFind(p) \/ WalletSave(p) \/ TxnSave(p)

\* POST /bet, for the users U and the request bodies R.
BetStep(U, R) ==
    \E p \in BetProcs :
        \/ \E u \in U, gid \in GameIds, r \in R : BetGame(p, u, gid, r)
        \/ BetExisting(p) \/ BetWallet(p) \/ BetInsert(p) \/ BetDebit(p) \/ BetTxn(p)

\* What only the monitor router has: the interval, and GET /current as a read.
MonitorStep == MonitorTick \/ MonitorFind \/ OpenSave("mon") \/ CurrentRead

\* What only the poll router has: GET /current driving the round, and
\* start-continuous opening the round it created.
PollStep == CurrentFind \/ OpenSave("cur") \/ StartSave

\* The administrative routes both routers have; F: the values fix is driven with.
AdminStep(F) ==
    \/ Create \/ CreateReply
    \/ \E gid \in GameIds : EndGame(gid)
    \/ \E gid \in GameIds, v \in F : FixFind(gid, v)
    \/ FixSave
    \/ StartContinuous \/ StartUpdate
    \/ StopContinuous \/ StopFind

\* Every handler, every input.
Next ==
    \/ Tick \/ MonitorStep \/ PollStep \/ TimerFire \/ CreateStep \/ AdminStep(FixRequests)
    \/ CloseStep(AllDraws) \/ SettleStep \/ BetStep(Users, BetRequests)
    \/ \E p \in Procs : WalletSaveFails(p)

Spec == Init /\ [][Next]_vars

\* The rounds of the monitor router alone: no wager is placed, so every
\* settlement loop is empty.  Wagers never feed back into the rounds, the flags
\* or the timers.
InitRounds == router = "monitor" /\ limit = MaxInFlight /\ Loaded
NextRounds ==
    \/ Tick \/ MonitorStep \/ TimerFire \/ CreateStep \/ AdminStep(SomeFixes)
    \/ CloseStep(SomeDraws)

SpecRounds == InitRounds /\ [][NextRounds]_vars

\* Wagers and their settlement in the monitor router: continuous games are
\* started, the monitor opens and closes the round, the administrator ends it.
SettleUsers == {"u1"}
SettleRequests == { <<"number", "3", 10>> }
NextSettle ==
    \/ Tick \/ MonitorStep \/ TimerFire \/ CreateStep
    \/ StartContinuous \/ StartUpdate
    \/ \E gid \in GameIds : EndGame(gid)
    \/ CloseStep(SomeDraws) \/ SettleStep \/ BetStep(SettleUsers, SettleRequests)

SpecSettle == InitRounds /\ [][NextSettle]_vars

\* Wagers that are accepted and wagers that are rejected, in the monitor
\* router: a stake of 10, and a stake above every balance a wallet starts with.
StakeRequests == { <<"number", "3", 10>>, <<"number", "3", 30>> }
NextBets ==
    \/ Tick \/ MonitorStep \/ TimerFire \/ CreateStep
    \/ StartContinuous \/ StartUpdate
    \/ CloseStep(SomeDraws) \/ SettleStep \/ BetStep(SettleUsers, StakeRequests)

SpecBets == InitRounds /\ [][NextBets]_vars

\* Wagers and their settlement in the monitor router when the save of a
\* credited wallet can fail.
NextLedger ==
    \/ Tick \/ MonitorStep \/ TimerFire \/ CreateStep
    \/ StartContinuous \/ StartUpdate
    \/ CloseStep(SomeDraws) \/ SettleStep \/ BetStep(SettleUsers, SettleRequests)
    \/ \E p \in Procs : WalletSaveFails(p)

SpecLedger == InitRounds /\ [][NextLedger]_vars

\* Continuous games started and stopped while wagers are placed, in the
\* monitor router.
NextStop ==
    \/ Tick \/ MonitorStep \/ TimerFire \/ CreateStep
    \/ StartContinuous \/ StartUpdate \/ StopContinuous \/ StopFind
    \/ CloseStep(SomeDraws) \/ SettleStep \/ BetStep(SettleUsers, SettleRequests)

SpecStop == InitRounds /\ [][NextStop]_vars

\* Creation on a database another server process writes to, in both routers.
InitRetry == router \in Routers /\ limit = MaxInFlight /\ Loaded
NextRetry == Tick \/ Create \/ CreateReply \/ CreateStep \/ ExternalInsert

SpecRetry == InitRetry /\ [][NextRetry]_vars

\* The same, with persistence errors; every awaited operation of a creation
\* in flight completes or fails.
NextRetryFail == NextRetry \/ \E p \in Procs : CreateFails(p)

SpecRetryFair == InitRetry /\ [][NextRetryFail]_vars /\ WF_vars(CreateStep)

\* The rounds of the monitor router under its scheduling: the interval set by
\* setInterval keeps firing, a timer set by setTimeout fires, and an awaited
\* persistence call returns.  The administrator creates rounds, ends rounds
\* and starts continuous games when they choose to.
NextProgress ==
    \/ Tick \/ MonitorStep \/ TimerFire \/ CreateStep
    \/ Create \/ CreateReply
    \/ StartContinuous \/ StartUpdate
    \/ \E gid \in GameIds : EndGame(gid)
    \/ CloseStep(SomeDraws)

FairProgress ==
    /\ SF_vars(MonitorTick) /\ SF_vars(TimerFire)
    /\ WF_vars(MonitorFind) /\ WF_vars(OpenSave("mon"))
    /\ WF_vars(CreateStep) /\ WF_vars(CreateReply) /\ WF_vars(StartUpdate)
    /\ WF_vars(CloseStep(SomeDraws))

SpecProgress == InitRounds /\ [][NextProgress]_vars /\ FairProgress

\* res.json({ game }) of the monitor router's GET /current: the round found.
CurrentGame == IF FindActive = 0 THEN NoDoc ELSE games[FindActive]

\* Outcomes in the monitor router: rounds made by POST /create, overridden by
\* PUT /:id/fix with every value it is driven with, and ended by PUT /:id/end
\* with every value the random draw can take.
NextOutcome ==
    \/ Tick \/ Create \/ CreateReply \/ CreateStep
    \/ \E gid \in GameIds, v \in FixRequests : FixFind(gid, v)
    \/ FixSave
    \/ \E gid \in GameIds : EndGame(gid)
    \/ CloseStep(AllDraws)

SpecOutcome == InitRounds /\ [][NextOutcome]_vars

\* Every handler of both routers, one request at a time.
InitSeq == router \in Routers /\ limit = 1 /\ Loaded
NextSeq ==
    \/ Tick \/ MonitorStep \/ PollStep \/ TimerFire \/ CreateStep \/ AdminStep(SomeFixes)
    \/ CloseStep(SomeDraws) \/ SettleStep \/ BetStep(Users, SettleRequests)

SpecSeq == InitSeq /\ [][NextSeq]_vars

\* ------------------------------------------------------------------ claims

\* The positions inside createNewGameSafely and inside endGameAndProcessBets.
CreatePcs == {"c_exist", "c_last", "c_save"}
PassPcs == {"end_save", "end_find", "bet_save", "wal_find", "wal_save", "txn_save"}
Creators == { p \in Procs : proc[p].pc \in CreatePcs }

\* Round gid is being closed: some call of endGameAndProcessBets on it has not returned.
Closing(gid) == \E p \in Procs : proc[p].pc \in PassPcs /\ proc[p].gid = gid

\* The wager matches the outcome persisted on its round.
Matches(b) ==
    LET g == games[bets[b].gameId]
    IN IsWin(bets[b], g.resultNumber, g.resultColor, g.resultSize)

\* C1: no wager is settled by two settlement passes: each wager is written as
\* settled at most once, and its payout is added to a wallet at most once.
C1_SettledOnce == \A b \in BetIds : bets[b].settled <= 1 /\ bets[b].credited <= 1

\* C2: with one request at a time, a call of endGameAndProcessBets on a round
\* that is already completed and has no pending wager changes no wager, no
\* wallet and no ledger entry, in any of its steps.
C2_SecondPassIdle ==
    [][ (\E p \in Procs : proc[p].again /\ proc[p].pc \in PassPcs) => UNCHANGED money ]_vars

\* C2, witness: a second call is at its Bet.find on a round with a won wager.
C2_Witness ==
    \E p \in Procs :
        /\ proc[p].again /\ proc[p].pc = "end_find"
        /\ \E b \in BetIds : bets[b].gameId = proc[p].gid /\ bets[b].result = "win"

\* C3: a round's outcome is never set while the round is waiting or betting,
\* and once set it never changes.
C3_OutcomeOnce ==
    [][ \A i \in GameIds :
          /\ IsActive(games'[i]) => games'[i].resultNumber = NULL
          /\ games[i].resultNumber # NULL =>
                /\ games'[i].resultNumber = games[i].resultNumber
                /\ games'[i].resultColor = games[i].resultColor
                /\ games'[i].resultSize = games[i].resultSize ]_vars

\* C4: at most one round is waiting or betting.
C4_OneActive == Cardinality(ActiveGames) <= 1

\* C5: while a round is active, no new round is persisted.
C5_NoCreateWhileActive == [][ ActiveGames # {} => Len(games') = Len(games) ]_vars

\* C6: creation requests that overlap leave one round: at most one call is
\* inside createNewGameSafely, it holds the claim, and never are two rounds
\* waiting (created and not yet opened) at once.
C6_OneCreation ==
    /\ Cardinality(Creators) <= 1
    /\ gameCreationInProgress <=> Creators # {}
    /\ Cardinality({ i \in GameIds : games[i].status = "waiting" }) <= 1

\* C6, witness: a creation has found no active round, and a second creation
\* request can arrive while it is in flight.
C6_Witness ==
    /\ \E p \in Procs : proc[p].pc = "c_save"
    /\ ActiveGames = {}
    /\ CanStart("create")

C8_SettledByOutcome ==
    \A b \in BetIds :
        bets[b].result # "pending" =>
            IF Matches(b)
            THEN bets[b].result = "win" /\ bets[b].payout = bets[b].amount * Multiplier(bets[b].betType)
            ELSE bets[b].result = "loss" /\ bets[b].payout = 0

\* C9: once the operation that closed a round has returned, no wager on that
\* round is pending.
C9_AllResolved ==
    \A b \in BetIds :
        (games[bets[b].gameId].status = "completed" /\ ~Closing(bets[b].gameId))
            => bets[b].result # "pending"

\* C10: a wager's result and payout change only in the settlement loop, on a
\* pending wager whose round has been persisted as completed (its endTime is
\* set from then on), and never change again.
C10_SettledOnceOnly ==
    [][ \A b \in BetIds :
          (bets'[b].result # bets[b].result \/ bets'[b].payout # bets[b].payout) =>
              /\ bets[b].result = "pending"
              /\ games[bets[b].gameId].endTime # NULL
              /\ \E p \in Procs : proc[p].pc = "bet_save" /\ Head(proc[p].todo) = b ]_vars

\* The order of the states of a round: waiting, betting, completed.
Rank(status) == CASE status = "waiting" -> 0 [] status = "betting" -> 1 [] OTHER -> 2

\* C11: a round that is completed, with no call of endGameAndProcessBets on it
\* still running, has its result set.
C11_ClosedHasOutcome ==
    \A i \in GameIds :
        (games[i].status = "completed" /\ ~Closing(i)) => games[i].resultNumber # NULL

\* C12: the persisted status of a round only moves forward (waiting, betting,
\* completed): no save takes a round back, so a save from a copy read before
\* another handler advanced the round changes nothing.
C12_StatusForward ==
    [][ \A i \in GameIds : Rank(games'[i].status) >= Rank(games[i].status) ]_vars

\* C13: when a round's result is persisted and a fixedResult is persisted on
\* the round at that moment, the result is that fixedResult.
C13_OverrideWins ==
    [][ \A i \in GameIds :
          (games[i].fixedResult # NULL /\ games[i].resultNumber = NULL
             /\ games'[i].resultNumber # NULL)
              => games'[i].resultNumber = games[i].fixedResult ]_vars

\* C14: the override of a completed round is never modified: isFixed and
\* fixedResult of a round persisted as completed stay as they are.
C14_NoFixAfterClose ==
    [][ \A i \in GameIds :
          games[i].status = "completed" =>
              /\ games'[i].fixedResult = games[i].fixedResult
              /\ games'[i].isFixed = games[i].isFixed ]_vars

\* C15: PUT /:id/end never calls endGameAndProcessBets with a round it loaded
\* as completed (the request is answered with an error instead).
C15_EndRejectsCompleted ==
    ~(proc["end"].pc = "end_save" /\ proc["end"].doc.status = "completed")

\* C16: POST /bet goes on past its check of the round only when the round is
\* betting and its deadline startTime + gameDuration has not passed.
C16_NoBetAfterDeadline ==
    [][ \A p \in BetProcs :
          (proc[p].pc = "idle" /\ proc'[p].pc = "b_exist") =>
              /\ games[proc'[p].gid].status = "betting"
              /\ ~BettingEnded(games[proc'[p].gid], now) ]_vars

\* C17: no two wagers have the same user and the same round.
C17_OneBetPerUserRound ==
    \A a, b \in BetIds :
        (bets[a].userId = bets[b].userId /\ bets[a].gameId = bets[b].gameId) => a = b

\* The positions of POST /bet before its first write: the check of the round
\* (at the start), of the existing bet, of the balance.
CheckPcs == {"idle", "b_exist", "b_wallet"}

\* C18: POST /bet writes nothing before its three checks have passed: a step
\* of the handler taken from one of its checks, the step that rejects the
\* request included, inserts no bet, changes no wallet and adds no
\* transaction; and the handler returns only from a check (rejected) or after
\* its last write (accepted), never in between.
C18_RejectedWritesNothing ==
    [][ \A p \in BetProcs :
          proc'[p] # proc[p] =>
              /\ proc[p].pc \in CheckPcs => UNCHANGED money
              /\ proc'[p].pc = "idle" => proc[p].pc \in CheckPcs \cup {"b_txn"} ]_vars

\* C18, witness: a request is at its balance check with a stake above the
\* balance, on a round the user has no bet on: it is rejected there.
C18_Witness ==
    \E p \in BetProcs :
        /\ proc[p].pc = "b_wallet"
        /\ wallets[proc[p].user] < proc[p].req[3]
        /\ games[proc[p].gid].status = "betting"

\* The handler's call of createNewGameSafely persists a round in this step.
Persists(p) == proc[p].pc = "c_save" /\ proc'[p].pc # "c_save" /\ Len(games') > Len(games)

\* C19: when POST /stop-continuous returns from closing a round it found
\* betting, that round and every round before it is completed (so a read of
\* the active round finds none of them) and no wager on that round is pending.
C19_StopClosesAll ==
    [][ (proc["stop"].pc \in PassPcs /\ proc["stop"].open /\ proc'["stop"].pc = "idle") =>
            /\ \A i \in GameIds : i <= proc["stop"].gid => ~IsActive(games'[i])
            /\ \A b \in BetIds :
                   bets'[b].gameId = proc["stop"].gid => bets'[b].result # "pending" ]_vars

\* C20: while continuous games are disabled, no round is persisted by the
\* monitor tick or by a delayed creation timer.
C20_NoAutoCreateWhenDisabled ==
    [][ ~continuousGamesEnabled => ~Persists("mon") /\ ~Persists("timer") ]_vars

\* C21: a wager persisted as a win has had its payout added to the wallet,
\* unless the settlement call that wrote it is still on its way to the credit.
C21_WonIsCredited ==
    \A b \in BetIds :
        (bets[b].result = "win" /\ bets[b].credited = 0) =>
            \E p \in Procs : proc[p].pc \in {"wal_find", "wal_save"} /\ Head(proc[p].todo) = b

RECURSIVE SumOver(_, _, _)
\* The sum of f[b] over the ids b of the set S.
SumOver(f, S, acc) ==
    IF S = {} THEN acc
    ELSE LET b == CHOOSE x \in S : TRUE IN SumOver(f, S \ {b}, acc + f[b])

\* The stakes of the wagers user u placed, and the payouts of those won.
Staked(u) ==
    SumOver([ b \in BetIds |-> bets[b].amount ], { b \in BetIds : bets[b].userId = u }, 0)
Won(u) ==
    SumOver([ b \in BetIds |-> bets[b].payout ],
            { b \in BetIds : bets[b].userId = u /\ bets[b].result = "win" }, 0)

\* C22: when no handler is executing, every wallet's balance is the initial
\* balance minus the stakes of the user's wagers plus the payouts of the
\* wagers the user won; stated for the states in which no wager was settled
\* twice and no user has two wagers on a round.
C22_BalanceConsistent ==
    (Running = {} /\ C1_SettledOnce /\ C17_OneBetPerUserRound) =>
        \A u \in Users : wallets[u] = InitBalance - Staked(u) + Won(u)

\* C23: when createNewGameSafely finds a round waiting or betting, it creates
\* nothing and its caller is told that no round was created: POST /create
\* answers with its error, start-continuous does not go on with a round.
C23_ActiveMeansAbsent ==
    [][ \A p \in {"create", "start"} :
          (proc[p].pc = "c_exist" /\ proc'[p] # proc[p] /\ ActiveGames # {}) =>
              (games' = games /\ proc'[p].pc = "idle") ]_vars

\* C24: while a creation is in flight, no other caller gets past the head of
\* createNewGameSafely, and the flag is cleared only by the step in which the
\* call in flight returns.
C24_LaterCallerReturns ==
    [][ gameCreationInProgress =>
          /\ \A p \in Procs : proc[p].pc \notin CreatePcs => proc'[p].pc \notin CreatePcs
          /\ gameCreationInProgress' \/
                \E p \in Procs : proc[p].pc \in CreatePcs /\ proc'[p].pc \notin CreatePcs ]_vars

\* C24, witness: a creation is in flight and the monitor tick, having found no
\* active round, is about to call createNewGameSafely.
C24_Witness ==
    /\ gameCreationInProgress
    /\ proc["mon"].pc = "mon_find"
    /\ FindActive = 0
    /\ continuousGamesEnabled

\* C25: gameCreationInProgress is set only while a call of createNewGameSafely
\* is executing, the step in which that call returns (round created, active
\* round found, attempts exhausted, persistence error) leaves it cleared, and a
\* set flag is eventually cleared.
C25_ClaimReleased ==
    /\ [](gameCreationInProgress => Creators # {})
    /\ [][ \A p \in Procs :
              (proc[p].pc \in CreatePcs /\ proc'[p].pc \notin CreatePcs)
                  => ~gameCreationInProgress' ]_vars
    /\ (gameCreationInProgress ~> ~gameCreationInProgress)

\* C25, witness: a call holds the claim and is about to find an active round.
C25_Witness ==
    /\ gameCreationInProgress
    /\ \E p \in Procs : proc[p].pc = "c_exist"
    /\ ActiveGames # {}

\* What one pass of the retry loop does, for a bound of k attempts: the number
\* tried is nextGameNumber + attempts, nextGameNumber being the highest number
\* plus one when it was read; the round is inserted, or the insert is rejected
\* and the next number is tried, or, after the k-th rejection, the call
\* returns null with nothing inserted.
RetryContract(k) ==
    \A p \in Procs :
        /\ (proc[p].pc = "c_last" /\ proc'[p].pc = "c_save") =>
               (proc'[p].n = LastGameNumber + 1 /\ proc'[p].attempts = 0)
        /\ (proc[p].pc = "c_save" /\ proc'[p] # proc[p]) =>
               /\ proc[p].attempts < k
               /\ \/ /\ Len(games') = Len(games) + 1
                     /\ games'[Len(games')].gameNumber = proc[p].n + proc[p].attempts
                     /\ proc'[p].pc # "c_save"
                  \/ /\ games' = games
                     /\ proc[p].attempts + 1 < k
                     /\ proc'[p].pc = "c_save"
                     /\ proc'[p].n = proc[p].n
                     /\ proc'[p].attempts = proc[p].attempts + 1
                  \/ /\ games' = games
                     /\ proc[p].attempts + 1 = k
                     /\ proc'[p].pc = "idle"

\* C26 as stated: the bound is 5 attempts.
C26_FiveAttempts == [][ RetryContract(MaxAttemptsMonitor) ]_vars

\* C26, amended: the bound is maxAttempts of the router mounted, 5 or 3.
C26_BoundedRetry == [][ RetryContract(MaxAttempts) ]_vars

\* C26, witness: the last attempt allowed is about to be rejected.
C26_Witness ==
    \E p \in Procs :
        /\ proc[p].pc = "c_save"
        /\ proc[p].attempts + 1 = MaxAttempts
        /\ DuplicateKey(proc[p].n + proc[p].attempts)

\* C27: a tick (monitor interval, or GET /current of the poll router) that
\* reads a waiting round whose startTime has passed saves it as betting, and
\* when startTime + gameDuration had passed as well at the time of the read,
\* the same invocation goes on to endGameAndProcessBets on that round instead
\* of returning.
C27_OpenThenClose ==
    [][ \A p \in {"mon", "cur"} :
          /\ (proc[p].pc # "open_save" /\ proc'[p].pc = "open_save") =>
                 /\ proc'[p].doc.status = "waiting"
                 /\ proc'[p].due = BettingEnded(proc'[p].doc, now)
          /\ (proc[p].pc = "open_save" /\ proc'[p] # proc[p]) =>
                 /\ games'[proc[p].gid].status = "betting"
                 /\ IF proc[p].due
                    THEN /\ proc'[p].pc = "end_save"
                         /\ proc'[p].gid = proc[p].gid
                         /\ proc'[p].doc.status = "betting"
                    ELSE proc'[p].pc = "idle" ]_vars

\* C27, witness: a tick has read a waiting round that is past its deadline.
C27_Witness ==
    \E p \in {"mon", "cur"} :
        /\ proc[p].pc = "open_save"
        /\ proc[p].due
        /\ games[proc[p].gid].status = "waiting"

\* A round that is due for a transition at time t.
Overdue(doc, t) ==
    \/ doc.status = "waiting" /\ t >= doc.startTime
    \/ doc.status = "betting" /\ BettingEnded(doc, t)

\* The status of round g, and whether it is due, once the round exists.
StatusAt(g) == IF g <= Len(games) THEN games[g].status ELSE NONE
DueAt(g) == g <= Len(games) /\ Overdue(games[g], now)

\* C28: every round that is due makes progress, continuous games enabled or
\* not: a waiting round whose startTime has passed is eventually no longer
\* waiting, and a betting round whose deadline has passed is eventually
\* completed; this includes a round of POST /create made while continuous
\* games are disabled.
C28_RoundsProgress ==
    \A g \in 1 .. MaxGames :
        /\ (StatusAt(g) = "waiting" /\ DueAt(g)) ~> (StatusAt(g) # "waiting")
        /\ (StatusAt(g) = "betting" /\ DueAt(g)) ~> (StatusAt(g) = "completed")

\* C29: GET /current never answers with a round that is due: neither a
\* waiting round whose startTime has passed nor a betting round whose
\* deadline has passed.
C29_CurrentIsFresh ==
    (router = "monitor" /\ CanStart("cur") /\ FindActive # 0) => ~Overdue(CurrentGame, now)

\* C30: while continuous games are enabled and the interval fires, a moment
\* with no active round is followed by a moment with one (the table having
\* room for it): a round is created without the administrator.
C30_NextRoundCreated ==
    (continuousGamesEnabled /\ ActiveGames = {} /\ Len(games) < MaxGames) ~> (ActiveGames # {})

\* C30, witness: with continuous games enabled, a round behind it and none
\* active, the monitor or its timer is inserting the next round.
C30_Witness ==
    \E p \in {"mon", "timer"} :
        /\ proc[p].pc = "c_save"
        /\ continuousGamesEnabled
        /\ ActiveGames = {}
        /\ Len(games) >= 1

\* The round createNewGameSafely hands to caller p in this step: 0 when the
\* step is not its return, or when it returns null.
Returned(p) ==
    IF proc[p].pc = "c_exist" /\ proc'[p].pc # "c_last" THEN FindActive
    ELSE IF proc[p].pc = "c_save" /\ Len(games') > Len(games) THEN Len(games')
    ELSE 0

\* C31: POST /start-continuous force-closes the rounds that are active when
\* it reconciles, before it establishes the fresh round: each of them is then
\* completed with an outcome set and no wager of it pending; and the round
\* the handler gets back for its answer is active and carries a sequence
\* number above those of all rounds made before it.
C31_StartForceCloses ==
    [][ /\ (proc["start"].pc = "start_update" /\ proc'["start"].pc # "start_update") =>
              \A i \in ActiveGames :
                  /\ games'[i].status = "completed"
                  /\ games'[i].resultNumber # NULL
                  /\ games'[i].resultColor # NONE /\ games'[i].resultSize # NONE
                  /\ \A b \in BetIds : bets'[b].gameId = i => bets'[b].result # "pending"
        /\ Returned("start") # 0 =>
              /\ IsActive(games'[Returned("start")])
              /\ \A i \in 1 .. (Returned("start") - 1) :
                     games'[i].gameNumber < games'[Returned("start")].gameNumber ]_vars

\* C32: POST /stop-continuous answers only once settlement has run to its
\* end: in the step in which the handler returns, no call of
\* endGameAndProcessBets is in progress in any handler and no wager is
\* pending, also when a monitor tick was closing the round as the stop
\* request arrived.
C32_StopAfterSettlement ==
    [][ (proc["stop"].pc # "idle" /\ proc'["stop"].pc = "idle") =>
            /\ \A p \in Procs : proc'[p].pc \notin PassPcs
            /\ \A b \in BetIds : bets'[b].result # "pending" ]_vars

\* C33: the classes persisted with an outcome are determined by its value:
\* for a value in 0..9, green when it is 0 or odd and red when it is nonzero
\* and even; big when it is 5 or more and small otherwise.  An override of 7
\* gives green and big.
C33_ClassesByValue ==
    \A i \in GameIds :
        LET g == games[i] IN
        g.resultNumber \in 0 .. 9 =>
            /\ g.resultColor = (IF g.resultNumber \in {0, 1, 3, 5, 7, 9} THEN "green" ELSE "red")
            /\ g.resultSize = (IF g.resultNumber \in {5, 6, 7, 8, 9} THEN "big" ELSE "small")
            /\ g.resultNumber = 7 => (g.resultColor = "green" /\ g.resultSize = "big")

\* C33, witness: a round overridden with 7 has been closed, and another round
\* has been closed with the draw 0.
C33_Witness ==
    /\ \E i \in GameIds : games[i].fixedResult = 7 /\ games[i].resultNumber = 7
    /\ \E i \in GameIds : games[i].fixedResult = NULL /\ games[i].resultNumber = 0

\* C34: the outcome of every completed round lies in 0..9, drawn or overridden.
C34_OutcomeInRange ==
    \A i \in GameIds : games[i].status = "completed" => games[i].resultNumber \in 0 .. (OutcomeRange - 1)

\* Account u holds a winning wager on round gid (in the next state).
HoldsWin(u, gid) ==
    \E b \in BetIds : bets'[b].userId = u /\ bets'[b].gameId = gid /\ bets'[b].result = "win"

\* C35: a step of endGameAndProcessBets on round gid changes no wager of
\* another round and adds none, changes only wallets of accounts that hold a
\* winning wager on gid, and writes ledger entries only for such accounts; the
\* step that marks a wager lost changes no wallet and no ledger entry.
C35_SettlementFrame ==
    [][ \A p \in Procs :
          (proc[p].pc \in PassPcs /\ proc'[p] # proc[p]) =>
             LET gid == proc[p].gid IN
             /\ Len(bets') = Len(bets)
             /\ \A b \in BetIds : bets'[b] # bets[b] => bets[b].gameId = gid
             /\ \A u \in Users : wallets'[u] # wallets[u] => HoldsWin(u, gid)
             /\ \A k \in DOMAIN txns' :
                    (k \notin DOMAIN txns \/ txns'[k] # txns[k]) => (k[2] = "win" /\ HoldsWin(k[1], gid))
             /\ (\E b \in BetIds : bets'[b].result = "loss" /\ bets[b].result # "loss") =>
                    (wallets' = wallets /\ txns' = txns) ]_vars

\* C36: at most one monitoring interval is live: one while gameCheckInterval
\* holds a handle, none while it is null, after any sequence of module load,
\* start-continuous and stop-continuous.
C36_OneMonitor == liveIntervals = (IF gameCheckInterval THEN 1 ELSE 0)

\* C36, witness: start-continuous has called startGameMonitoring() while a
\* callback of the interval set before is still running.
C36_Witness ==
    /\ gameCheckInterval /\ liveIntervals = 1 /\ continuousGamesEnabled
    /\ proc["start"].pc \in CreatePcs
    /\ proc["mon"].pc # "idle"

====
